---- MODULE Spec2Model ----
(***************************************************************************)
(* The five stage scripts of packages/minilm-builder/python (download,     *)
(* convert, optimize, quantize, verify), each modelled as one run of the   *)
(* script: its imports, its argument parsing, the statements of its try    *)
(* block one by one, its except handler and its exit.  The delegated       *)
(* library calls are collaborators: each returns or raises, and writes     *)
(* what its role in the pipeline says it writes.                           *)
(***************************************************************************)
EXTENDS Integers, Sequences, FiniteSets, TLC

VARIABLES
    stage,      \* which script this run executes
    missing,    \* the libraries that cannot be imported in this environment
    argv,       \* sys.argv[1:], each argument a path (sequence of components)
    stdoutMode, \* "tty": sys.stdout is line buffered; "pipe": block buffered
    files,      \* the filesystem: path -> content, Absent when there is no file
    dirs,       \* the directories that exist
    pc,         \* "start", "import_try", "argv", "try", "except", "exited"
    ip,         \* in the try block: the index of the next statement
    out,        \* the records print() has written to sys.stdout, in order
    delivered,  \* how many of them have left the stdout buffer
    exitCode,   \* the process's exit status, NotExited while it runs
    exc,        \* str(e) of the exception raised in the try block, NoExc if none
    locals,     \* optimized_model (optimize), outputs (verify)
    files0,     \* history: the files when the run began
    dirs0,      \* history: the directories when the run began
    trace,      \* history: the statements of the try block executed so far
    copied,     \* history: the files the script's own copy loop has written
    runs        \* history: the runs that ended before this one began

vars == <<stage, missing, argv, stdoutMode, files, dirs, pc, ip, out, delivered,
          exitCode, exc, locals, files0, dirs0, trace, copied, runs>>

-----------------------------------------------------------------------------
(* Bounds *)

\* The number of distinct messages a failing library or filesystem call may carry.
NumErr == 2

-----------------------------------------------------------------------------
(* Paths and the filesystem *)

Absent == "<absent>"
\* exitCode while the process runs: a value no exit produces.
NotExited == 0 - 1
NoExc == "<none>"

InDir == <<"in">>
OutDir == <<"out">>
Dirs == {InDir, OutDir}

\* The file list of optimize.py's copy loop, in its order.
OptimizeManifest ==
    <<"config.json", "tokenizer.json", "tokenizer_config.json",
      "special_tokens_map.json", "vocab.txt">>

\* A quantize.py whose duplicated list has lost an entry.
QuantizeManifestDrifted ==
    <<"tokenizer.json", "tokenizer_config.json", "special_tokens_map.json", "vocab.txt">>

\* The file list of quantize.py's copy loop, in its order.
QuantizeManifest ==
    <<"tokenizer.json", "tokenizer_config.json", "special_tokens_map.json",
      "vocab.txt", "config.json">>

Range(s) == {s[i] : i \in 1..Len(s)}

FileNames ==
    Range(OptimizeManifest) \cup Range(QuantizeManifest)
        \cup {"model.onnx", "model_quantized.onnx", "opt.onnx", "model.safetensors"}

AllPaths == {Append(d, n) : d \in Dirs, n \in FileNames}

\* pathlib: Path(p).parent, Path(p) / name, str(Path(p))
Parent(p) == SubSeq(p, 1, Len(p) - 1)
Join(p, name) == Append(p, name)
PathStr(p) ==
    IF Len(p) = 0 THEN "."
    ELSE IF Len(p) = 1 THEN p[1]
    ELSE p[1] \o "/" \o p[2]

\* Path.exists()
Exists(fs, p) == fs[p] # Absent

-----------------------------------------------------------------------------
(* Records of the status protocol: json.dumps of a dict, printed as one line *)

StatusRecord(tag) == [status |-> tag]

\* A handler that reports a fixed text instead of str(e).
ErrorRecordGeneric(msg) == [error |-> "stage failed"]

ErrorRecord(msg) == [error |-> msg]

IsError(r) == "error" \in DOMAIN r
IsComplete(r) == "status" \in DOMAIN r /\ r.status = "complete"
IsProgress(r) == "status" \in DOMAIN r /\ r.status # "complete"
IsTerminal(r) == IsError(r) \/ IsComplete(r)

-----------------------------------------------------------------------------
(* The scripts *)

Stages == {"download", "convert", "optimize", "quantize", "verify"}

\* The imports outside any try block: an ImportError here is not caught.
UnguardedLibs(s) == IF s = "verify" THEN {"numpy"} ELSE {}

\* The imports inside the try/except ImportError block.
GuardedLibs(s) ==
    CASE s = "download" -> {"transformers"}
      [] s = "convert"  -> {"optimum", "transformers"}
      [] s = "optimize" -> {"onnxruntime"}
      [] s = "quantize" -> {"onnxruntime", "onnx"}
      [] s = "verify"   -> {"onnxruntime", "transformers"}

NeededLibs(s) == UnguardedLibs(s) \cup GuardedLibs(s)

\* The message of the except ImportError handler.
ImportErrorText(s) ==
    CASE s = "download" -> "transformers not installed"
      [] s = "convert"  -> "optimum[exporters] not installed"
      [] s = "optimize" -> "onnxruntime not installed"
      [] s = "quantize" -> "onnxruntime not installed"
      [] s = "verify"   -> "onnxruntime or transformers not installed"

\* How many positional arguments the script indexes unconditionally.
RequiredArgs(s) == IF s = "optimize" THEN 4 ELSE 2

\* int(sys.argv[k]) succeeds on these.
IsInt(a) == a \in {<<"12">>, <<"384">>}

\* Lines 13-17: the sys.argv reads (IndexError) and int() conversions (ValueError)
\* that precede the try block.
ArgsParse(s, av) ==
    /\ Len(av) >= RequiredArgs(s)
    /\ s = "optimize" => IsInt(av[3]) /\ IsInt(av[4])

\* The directory a script reads its predecessor's files from.
InputDirOf(s, av) ==
    CASE s = "convert"  -> av[1]
      [] s = "optimize" -> Parent(av[1])
      [] s = "quantize" -> av[1]
      [] s = "verify"   -> Parent(av[1])
      [] OTHER          -> <<>>

\* The directory a script creates and writes into.
OutputDirOf(s, av) ==
    CASE s = "download" -> av[2]
      [] s = "convert"  -> av[2]
      [] s = "optimize" -> Parent(av[2])
      [] s = "quantize" -> av[2]
      [] OTHER          -> <<>>

\* The path of the primary artifact a script's library writes.
PrimaryPath(s, av) ==
    CASE s = "download" -> Join(av[2], "model.safetensors")
      [] s = "convert"  -> Join(av[2], "model.onnx")
      [] s = "optimize" -> av[2]
      [] s = "quantize" -> Join(av[2], "model_quantized.onnx")
      [] OTHER          -> <<>>

\* A copy loop that reads the wrong variable: the freshly written artifact.
CopySourceIsArtifact(s, av, n) == PrimaryPath(s, av)

\* src = <input dir> / file of the copy loops.
CopySource(s, av, n) == Join(InputDirOf(s, av), n)

\* One statement of a try block: what it does, its operand, its source line.
I(op, arg, line) == [op |-> op, arg |-> arg, line |-> line]

DownloadProgram ==
    << I("print", "downloading_model", 17),
       I("call", "AutoModel.from_pretrained", 18),
       I("print", "downloading_tokenizer", 20),
       I("call", "AutoTokenizer.from_pretrained", 21),
       I("mkdir", "", 24),
       I("print", "saving_model", 26),
       I("call", "model.save_pretrained", 27),
       I("print", "saving_tokenizer", 29),
       I("call", "tokenizer.save_pretrained", 30),
       I("complete", "", 32) >>

ConvertProgram ==
    << I("mkdir", "", 19),
       I("print", "exporting_to_onnx", 21),
       I("call", "main_export", 23),
       I("complete", "", 31) >>

CopyLoop(manifest, line) == [i \in 1..Len(manifest) |-> I("copy", manifest[i], line)]

\* An optimize.py that reports completion once the model is saved, before the
\* copy loop.
OptimizeProgramCompleteEarly ==
    << I("print", "loading_model", 20),
       I("print", "optimizing", 22),
       I("call", "FusionOptions", 24),
       I("call", "optimize_model", 28),
       I("print", "saving", 36),
       I("mkdir", "", 37),
       I("call", "save_model_to_file", 38),
       I("complete", "", 49) >>
    \o CopyLoop(OptimizeManifest, 43)

OptimizeProgram ==
    << I("print", "loading_model", 20),
       I("print", "optimizing", 22),
       I("call", "FusionOptions", 24),
       I("call", "optimize_model", 28),
       I("print", "saving", 36),
       I("mkdir", "", 37),
       I("call", "save_model_to_file", 38) >>
    \o CopyLoop(OptimizeManifest, 43)
    \o << I("complete", "", 49) >>

\* A quantize.py that, like convert.py, creates its output directory first.
QuantizeProgramMkdirFirst ==
    << I("print", "loading_model", 18),
       I("mkdir", "", 25),
       I("check", "model.onnx", 21),
       I("print", "quantizing", 28),
       I("call", "quantize_dynamic", 30) >>
    \o CopyLoop(QuantizeManifest, 42)
    \o << I("complete", "", 48) >>

QuantizeProgram ==
    << I("print", "loading_model", 18),
       I("check", "model.onnx", 21),
       I("mkdir", "", 25),
       I("print", "quantizing", 28),
       I("call", "quantize_dynamic", 30) >>
    \o CopyLoop(QuantizeManifest, 42)
    \o << I("complete", "", 48) >>

VerifyProgram ==
    << I("print", "loading_session", 19),
       I("call", "InferenceSession", 20),
       I("print", "loading_tokenizer", 22),
       I("call", "AutoTokenizer.from_pretrained", 23),
       I("print", "tokenizing", 25),
       I("call", "tokenizer", 26),
       I("print", "running_inference", 28),
       I("call", "session.run", 30),
       I("complete", "", 36) >>

Program(s) ==
    CASE s = "download" -> DownloadProgram
      [] s = "convert"  -> ConvertProgram
      [] s = "optimize" -> OptimizeProgram
      [] s = "quantize" -> QuantizeProgram
      [] s = "verify"   -> VerifyProgram

-----------------------------------------------------------------------------
(* The delegated library calls *)

\* The messages of the exceptions the libraries and the filesystem raise.
EnvErrors == {"failure " \o ToString(i) : i \in 1..NumErr}

\* The weights file a stage's library reads from the input directory.
WeightsName(s) == IF s = "convert" THEN "model.safetensors" ELSE "model.onnx"

Write(fs, p, c) == [fs EXCEPT ![p] = c]

\* fs with every file of names written into directory d by a library, each
\* with the library's own content for that name.
WriteEach(fs, d, names, by) ==
    [p \in DOMAIN fs |->
        IF Parent(p) = d /\ p[Len(p)] \in names THEN by \o p[Len(p)] ELSE fs[p]]

HubFile == "hub "
ExportedFile == "exported "

Returns(fs, loc) == [raised |-> FALSE, msg |-> NoExc, files |-> fs, locals |-> loc]
Raises(fss, loc) ==
    {[raised |-> TRUE, msg |-> m, files |-> fs, locals |-> loc] : m \in EnvErrors, fs \in fss}

\* The bytes of a transformed model are the library's business: two calls on
\* the same input may serialise it differently.
Variants == {"", "~"}

\* outputs[0] of session.run, flattened; np.mean and np.std of it.
Tensors == {<<0, 0>>, <<1, 3>>, <<-2, 2, -2, 2>>}

RECURSIVE Sum(_)
Sum(t) == IF t = <<>> THEN 0 ELSE Head(t) + Sum(Tail(t))

Mean(t) == Sum(t) \div Len(t)
Std(t) ==
    LET var == Sum([i \in 1..Len(t) |-> (t[i] - Mean(t)) * (t[i] - Mean(t))]) \div Len(t)
    IN  CHOOSE r \in 0..var : r * r = var

\* What a call of library function fn can do from the current state: return or
\* raise, with the files it has written by then.
LibraryCall(fn) ==
    CASE fn \in {"AutoModel.from_pretrained", "AutoTokenizer.from_pretrained",
                 "FusionOptions", "tokenizer"} ->
            {Returns(files, locals)} \cup Raises({files}, locals)
      [] fn = "model.save_pretrained" ->
            LET part == WriteEach(files, argv[2], {"config.json"}, HubFile)
                full == WriteEach(files, argv[2], {"config.json", "model.safetensors"}, HubFile)
            IN  {Returns(full, locals)} \cup Raises({files, part}, locals)
      [] fn = "tokenizer.save_pretrained" ->
            LET part == WriteEach(files, argv[2], {"tokenizer_config.json"}, HubFile)
                full == WriteEach(files, argv[2],
                                  Range(OptimizeManifest) \ {"config.json"}, HubFile)
            IN  {Returns(full, locals)} \cup Raises({files, part}, locals)
      [] fn = "main_export" ->
            LET src  == Join(argv[1], WeightsName("convert"))
                dst  == Join(argv[2], "model.onnx")
                side == {n \in Range(OptimizeManifest) : Exists(files, Join(argv[1], n))}
                bare == Write(files, dst, "onnx(" \o files[src] \o ")")
                full == WriteEach(bare, argv[2], side, ExportedFile)
            IN  IF Exists(files, src)
                THEN {Returns(bare, locals), Returns(full, locals)}
                         \cup Raises({files, Write(files, dst, "truncated")}, locals)
                ELSE Raises({files}, locals)
      [] fn = "optimize_model" ->
            IF Exists(files, argv[1])
            THEN {Returns(files, [locals EXCEPT
                            !.optimized_model = "opt" \o v \o "(" \o files[argv[1]] \o ")"])
                     : v \in Variants}
                     \cup Raises({files}, locals)
            ELSE Raises({files}, locals)
      [] fn = "save_model_to_file" ->
            {Returns(Write(files, argv[2], locals.optimized_model), locals)}
                \cup Raises({files, Write(files, argv[2], "truncated")}, locals)
      [] fn = "quantize_dynamic" ->
            LET src == Join(argv[1], "model.onnx")
                dst == Join(argv[2], "model_quantized.onnx")
            IN  IF Exists(files, src)
                THEN {Returns(Write(files, dst, "q8" \o v \o "(" \o files[src] \o ")"),
                              locals) : v \in Variants}
                         \cup Raises({files, Write(files, dst, "truncated")}, locals)
                ELSE Raises({files}, locals)
      [] fn = "InferenceSession" ->
            IF Exists(files, argv[1])
            THEN {Returns(files, locals)} \cup Raises({files}, locals)
            ELSE Raises({files}, locals)
      [] fn = "session.run" ->
            {Returns(files, [locals EXCEPT !.outputs = t]) : t \in Tensors}
                \cup Raises({files}, locals)

-----------------------------------------------------------------------------
(* The runs *)

\* The output paths an optimize run is given.
OptimizeOutputs ==
    { Join(OutDir, "model.onnx"), Join(OutDir, "opt.onnx"), Join(OutDir, "vocab.txt"),
      Join(InDir, "model.onnx"), Join(InDir, "opt.onnx") }

\* The complete argument vectors of a stage.
FullArgv(s) ==
    CASE s = "download" -> { << <<"hub-model">>, OutDir >> }
      [] s = "convert"  -> { <<InDir, o>> : o \in Dirs }
      [] s = "optimize" ->
            { <<Join(InDir, "model.onnx"), o, h, z>> :
                o \in OptimizeOutputs, h \in {<<"12">>, <<"twelve">>}, z \in {<<"384">>} }
      [] s = "quantize" -> { <<InDir, o>> : o \in Dirs }
      [] s = "verify"   ->
            { <<Join(InDir, "model.onnx"), InDir>>,
              <<Join(InDir, "model.onnx"), InDir, <<"hello">> >> }

\* A run may be started with any number of them.
Argvs(s) == UNION {{SubSeq(a, 1, k) : k \in 0..Len(a)} : a \in FullArgv(s)}

InputStates(s) ==
    IF s = "download"
    THEN {[exists |-> FALSE, weights |-> FALSE, side |-> {}]}
    ELSE {[exists |-> FALSE, weights |-> FALSE, side |-> {}]}
         \cup {[exists |-> TRUE, weights |-> w, side |-> S] :
                    w \in BOOLEAN, S \in SUBSET Range(OptimizeManifest)}

OutputStates(s) == IF s = "verify" THEN {"missing"} ELSE {"missing", "empty", "stale"}

\* What an output directory in state o holds under name n before the run: a
\* stale directory is what an earlier, unrelated run has left behind.
LeftOver(o, n) ==
    IF o = "stale" /\ n \in {"vocab.txt", "model.onnx", "model_quantized.onnx"}
    THEN "stale"
    ELSE Absent

InitialFiles(s, in, o) ==
    [p \in AllPaths |->
        LET n == p[Len(p)]
        IN  IF Parent(p) = InDir
            THEN IF n = WeightsName(s) THEN (IF in.weights THEN "weights" ELSE Absent)
                 ELSE IF n \in in.side THEN "bytes of " \o n
                 ELSE Absent
            ELSE LeftOver(o, n)]

InitialDirs(in, o) ==
    (IF in.exists THEN {InDir} ELSE {}) \cup (IF o = "missing" THEN {} ELSE {OutDir})

Init ==
    /\ stage \in Stages
    /\ missing \in {{}} \cup {{l} : l \in NeededLibs(stage)}
    /\ argv \in Argvs(stage)
    /\ stdoutMode \in {"tty", "pipe"}
    /\ \E in \in InputStates(stage), o \in OutputStates(stage) :
          /\ files = InitialFiles(stage, in, o)
          /\ dirs = InitialDirs(in, o)
    /\ files0 = files
    /\ dirs0 = dirs
    /\ pc = "start"
    /\ ip = 0
    /\ out = <<>>
    /\ delivered = 0
    /\ exitCode = NotExited
    /\ exc = NoExc
    /\ locals = [optimized_model |-> Absent, outputs |-> <<>>]
    /\ trace = <<>>
    /\ copied = {}
    /\ runs = <<>>

-----------------------------------------------------------------------------
(* Statements *)

\* A handler that prints the error and forgets sys.exit(1).
StatusOfFallingThrough == 1 - 1

\* sys.exit(1) of the except handlers; the status of an uncaught exception;
\* the status of a script that runs to its end.
FailureStatus == 1
UncaughtStatus == 1
SuccessStatus == 0

\* print(): the record joins sys.stdout's buffer; a line-buffered stream (a
\* terminal) writes it through at once, a block-buffered one (a pipe, a file)
\* keeps it until the buffer fills or the process exits.  No print() passes
\* flush=True, and no record comes near the buffer's size.
DeliveredAfterPrint(mode, o, d) == IF mode = "tty" THEN Len(o) ELSE d

\* Interpreter shutdown flushes sys.stdout.
Exit(status) ==
    /\ pc' = "exited"
    /\ exitCode' = status
    /\ delivered' = Len(out')

\* An exception no handler catches: the traceback goes to stderr, nothing to stdout.
Crash ==
    /\ out' = out
    /\ Exit(UncaughtStatus)

Cur == Program(stage)[ip]
InTry(op) == pc = "try" /\ ip \in 1..Len(Program(stage)) /\ Cur.op = op

\* The statement ran to its end: on to the next one.
Advance ==
    /\ pc' = "try"
    /\ ip' = ip + 1
    /\ exc' = exc

\* A stage that retries the statement that raised.
RaiseAndRetry(msg) ==
    /\ pc' = "try"
    /\ ip' = ip
    /\ exc' = msg

\* The statement raised: control passes to except Exception as e.
Raise(msg) ==
    /\ pc' = "except"
    /\ ip' = ip
    /\ exc' = msg

\* The top-level imports outside the try block (verify.py line 5).
ImportTopLevel ==
    /\ pc = "start"
    /\ IF UnguardedLibs(stage) \cap missing # {}
       THEN Crash
       ELSE /\ pc' = "import_try"
            /\ UNCHANGED <<out, delivered, exitCode>>
    /\ UNCHANGED <<runs, stage, missing, argv, stdoutMode, files, dirs, ip, exc, locals,
                   files0, dirs0, trace, copied>>

\* try: from ... import ...  except ImportError: print error; sys.exit(1)
ImportGuarded ==
    /\ pc = "import_try"
    /\ IF GuardedLibs(stage) \cap missing # {}
       THEN /\ out' = Append(out, ErrorRecord(ImportErrorText(stage)))
            /\ Exit(FailureStatus)
       ELSE /\ pc' = "argv"
            /\ UNCHANGED <<out, delivered, exitCode>>
    /\ UNCHANGED <<runs, stage, missing, argv, stdoutMode, files, dirs, ip, exc, locals,
                   files0, dirs0, trace, copied>>

\* The sys.argv reads and int() conversions between the imports and the try block.
ParseArgs ==
    /\ pc = "argv"
    /\ IF ArgsParse(stage, argv)
       THEN /\ pc' = "try"
            /\ ip' = 1
            /\ UNCHANGED <<out, delivered, exitCode>>
       ELSE /\ Crash
            /\ ip' = ip
    /\ UNCHANGED <<runs, stage, missing, argv, stdoutMode, files, dirs, exc, locals,
                   files0, dirs0, trace, copied>>

\* print(json.dumps({"status": tag}))
EmitStatus ==
    /\ InTry("print")
    /\ out' = Append(out, StatusRecord(Cur.arg))
    /\ delivered' = DeliveredAfterPrint(stdoutMode, out', delivered)
    /\ Advance
    /\ trace' = Append(trace, Cur)
    /\ UNCHANGED <<runs, stage, missing, argv, stdoutMode, files, dirs, exitCode, locals,
                   files0, dirs0, copied>>

\* A quantize.py without its input check.
InputMissingNever(fs, av, name) == FALSE

\* A quantize.py that is content with any ONNX file in its input directory.
InputMissingAnyOnnx(fs, av, name) ==
    \A n \in {"model.onnx", "opt.onnx", "model_quantized.onnx"} : ~Exists(fs, Join(av[1], n))

\* quantize.py: if not model_path.exists(): raise FileNotFoundError(...)
InputMissing(fs, av, name) == ~Exists(fs, Join(av[1], name))

CheckInput ==
    /\ InTry("check")
    /\ IF InputMissing(files, argv, Cur.arg)
       THEN Raise("Model not found: " \o PathStr(Join(argv[1], Cur.arg)))
       ELSE Advance
    /\ trace' = Append(trace, Cur)
    /\ UNCHANGED <<runs, stage, missing, argv, stdoutMode, files, dirs, out, delivered,
                   exitCode, locals, files0, dirs0, copied>>

\* Path(...).mkdir(parents=True, exist_ok=True): creates the directory, or raises
\* OSError and creates nothing.
MakeOutputDir ==
    /\ InTry("mkdir")
    /\ \/ /\ dirs' = dirs \cup {OutputDirOf(stage, argv)}
          /\ Advance
       \/ /\ dirs' = dirs
          /\ \E m \in EnvErrors : Raise(m)
    /\ trace' = Append(trace, Cur)
    /\ UNCHANGED <<runs, stage, missing, argv, stdoutMode, files, out, delivered,
                   exitCode, locals, files0, dirs0, copied>>

\* A call into a delegated library.
CallLibrary ==
    /\ InTry("call")
    /\ \E r \in LibraryCall(Cur.arg) :
          /\ files' = r.files
          /\ locals' = r.locals
          /\ IF r.raised THEN Raise(r.msg) ELSE Advance
    /\ trace' = Append(trace, Cur)
    /\ UNCHANGED <<runs, stage, missing, argv, stdoutMode, dirs, out, delivered,
                   exitCode, files0, dirs0, copied>>

\* A copy that goes through read_text/write_text and re-encodes the content.
CopiedBytesAsText(fs, src) == "text of " \o fs[src]

\* src.read_bytes()
CopiedBytes(fs, src) == fs[src]

\* One turn of the copy loop: src = <input dir> / file; if src.exists():
\* dst = <output dir> / file; dst.write_bytes(src.read_bytes()).  read_bytes may
\* raise before anything is written; write_bytes may raise with dst cut short.
CopySidecar ==
    /\ InTry("copy")
    /\ LET src == CopySource(stage, argv, Cur.arg)
           dst == Join(OutputDirOf(stage, argv), Cur.arg)
       IN  IF Exists(files, src)
           THEN \/ /\ files' = Write(files, dst, CopiedBytes(files, src))
                   /\ copied' = copied \cup {Cur.arg}
                   /\ Advance
                \/ /\ files' \in {files, Write(files, dst, "truncated")}
                   /\ copied' = copied
                   /\ \E m \in EnvErrors : Raise(m)
           ELSE /\ files' = files
                /\ copied' = copied
                /\ Advance
    /\ trace' = Append(trace, Cur)
    /\ UNCHANGED <<runs, stage, missing, argv, stdoutMode, dirs, out, delivered,
                   exitCode, locals, files0, dirs0>>

\* verify.py: test_text = sys.argv[3] if len(sys.argv) > 3 else "This is a test"
TestText(av) == IF Len(av) >= 3 THEN av[3][1] ELSE "This is a test"

\* A final print that reports completion and nothing else.
CompleteRecordBare(s, av, loc) == [status |-> "complete"]

\* The dict of the final print of each try block.
CompleteRecord(s, av, loc) ==
    CASE s = "download" -> [status |-> "complete", cache_dir |-> PathStr(av[2])]
      [] s = "convert"  -> [status |-> "complete", output_dir |-> PathStr(av[2])]
      [] s = "optimize" -> [status |-> "complete", output_path |-> PathStr(av[2])]
      [] s = "quantize" -> [status |-> "complete", output_dir |-> PathStr(av[2])]
      [] s = "verify"   ->
            [status |-> "complete", test_text |-> TestText(av),
             output_shape |-> <<Len(loc.outputs)>>,
             output_mean |-> Mean(loc.outputs), output_std |-> Std(loc.outputs)]

\* print(json.dumps({"status": "complete", ...}))
EmitComplete ==
    /\ InTry("complete")
    /\ out' = Append(out, CompleteRecord(stage, argv, locals))
    /\ delivered' = DeliveredAfterPrint(stdoutMode, out', delivered)
    /\ Advance
    /\ trace' = Append(trace, Cur)
    /\ UNCHANGED <<runs, stage, missing, argv, stdoutMode, files, dirs, exitCode, locals,
                   files0, dirs0, copied>>

\* The script runs off its end.
ExitSuccess ==
    /\ pc = "try"
    /\ ip = Len(Program(stage)) + 1
    /\ out' = out
    /\ Exit(SuccessStatus)
    /\ UNCHANGED <<runs, stage, missing, argv, stdoutMode, files, dirs, ip, exc, locals,
                   files0, dirs0, trace, copied>>

\* except Exception as e: print(json.dumps({"error": str(e)})); sys.exit(1)
HandleException ==
    /\ pc = "except"
    /\ out' = Append(out, ErrorRecord(exc))
    /\ Exit(FailureStatus)
    /\ UNCHANGED <<runs, stage, missing, argv, stdoutMode, files, dirs, ip, exc, locals,
                   files0, dirs0, trace, copied>>

Next ==
    \/ ImportTopLevel
    \/ ImportGuarded
    \/ ParseArgs
    \/ EmitStatus
    \/ CheckInput
    \/ MakeOutputDir
    \/ CallLibrary
    \/ CopySidecar
    \/ EmitComplete
    \/ ExitSuccess
    \/ HandleException

Spec == Init /\ [][Next]_vars

-----------------------------------------------------------------------------
(* Vocabulary of the properties *)

\* The fixed manifest of sidecar filenames.
Manifest ==
    {"config.json", "tokenizer.json", "tokenizer_config.json",
     "special_tokens_map.json", "vocab.txt"}

Exited == pc = "exited"
Succeeded == Exited /\ exitCode = 0
Last(s) == s[Len(s)]
Terminals == {i \in 1..Len(out) : IsTerminal(out[i])}

\* The run was given the positional parameters its stage declares.
WellInvoked == ArgsParse(stage, argv)
DependencyMissing == NeededLibs(stage) \cap missing # {}
Untouched == files = files0 /\ dirs = dirs0

-----------------------------------------------------------------------------
(* C1 *)

\* C1: every run that has ended has emitted exactly one terminal record (a
\* complete record or a record with an error key), and it is the last record
\* of its output.
C1_OneTerminalRecordLast ==
    Exited => /\ Cardinality(Terminals) = 1
              /\ Len(out) \in Terminals

-----------------------------------------------------------------------------
(* C2 *)

\* C2: a run whose stage lacks one of the libraries it needs ends having emitted
\* exactly one record, an error record, with a failure status, and leaves the
\* filesystem as it found it: no artifact, no output directory.
C2_MissingDependencyOneError ==
    DependencyMissing =>
        /\ Untouched
        /\ \A i \in 1..Len(out) : ~IsProgress(out[i])
        /\ Exited => /\ Len(out) = 1
                     /\ IsError(out[1])
                     /\ exitCode # 0

-----------------------------------------------------------------------------
(* C3 *)

QuantizeWithoutModel ==
    /\ stage = "quantize"
    /\ WellInvoked
    /\ ~Exists(files0, Join(argv[1], "model.onnx"))

\* C3: a quantize run whose input directory holds no model.onnx never writes a
\* file, never creates a directory, never copies a sidecar and never calls the
\* quantization library, and it ends with an error record and a failure status.
C3_QuantizeMissingInputWritesNothing ==
    QuantizeWithoutModel =>
        /\ Untouched
        /\ copied = {}
        /\ \A i \in 1..Len(trace) : trace[i].op \notin {"call", "mkdir", "copy"}
        /\ Exited => /\ exitCode # 0
                     /\ Len(out) >= 1
                     /\ IsError(Last(out))

\* The input check itself has fired: both libraries import, the run has printed
\* loading_model, raised Model not found and exited.
C3_Witness ==
    /\ QuantizeWithoutModel
    /\ missing = {}
    /\ Exited
    /\ out = <<StatusRecord("loading_model"),
               ErrorRecord("Model not found: in/model.onnx")>>
    /\ argv[2] \notin dirs

-----------------------------------------------------------------------------
(* C4 *)

\* C4: a run that has ended has status zero exactly when its last record is a
\* complete record; a run that emitted an error record, or that lacks a
\* library, has a nonzero status.
C4_ZeroStatusIffComplete ==
    Exited =>
        /\ exitCode = 0 <=> (Len(out) >= 1 /\ IsComplete(Last(out)))
        /\ (\E i \in 1..Len(out) : IsError(out[i])) => exitCode # 0
        /\ DependencyMissing => exitCode # 0

\* Both sides happen: this run ended with complete and status zero ...
C4_Witness ==
    /\ Exited
    /\ exitCode = 0
    /\ IsComplete(Last(out))
    /\ stage = "quantize"

-----------------------------------------------------------------------------
(* C5 *)

\* The stage's own input and output directories (the run is well invoked).
Src(n) == Join(InputDirOf(stage, argv), n)
Dst(n) == Join(OutputDirOf(stage, argv), n)

\* The manifest files the predecessor directory held when the run began.
S0 == {n \in Manifest : Exists(files0, Src(n))}

\* The destination held no file when the run began.
EmptyDestination == \A n \in FileNames : ~Exists(files0, Dst(n))

\* The name of the primary artifact the stage writes.
PrimaryName == IF stage = "optimize" THEN Last(argv[2]) ELSE "model_quantized.onnx"

Downstream == stage \in {"optimize", "quantize"}

SidecarsAreExactlyS0 ==
    /\ \A n \in Manifest :
          files[Dst(n)] = IF n \in S0 THEN files0[Src(n)] ELSE Absent
    /\ copied = S0
    /\ \A n \in FileNames \ (Manifest \cup {PrimaryName}) : ~Exists(files, Dst(n))

\* C5 as stated: after a successful Optimize or Quantize run into an empty
\* destination, the manifest files of the destination are exactly those of the
\* predecessor, byte for byte, and nothing outside the manifest was copied.
C5_Original ==
    (Downstream /\ Succeeded /\ EmptyDestination) => SidecarsAreExactlyS0

\* C5 as amended: the same, for runs whose primary artifact does not itself
\* bear a manifest filename (Optimize's output filename is the caller's).
C5_SidecarsExactlyS ==
    (Downstream /\ Succeeded /\ EmptyDestination /\ PrimaryName \notin Manifest)
        => SidecarsAreExactlyS0

\* A successful optimize run has skipped some manifest files and copied others.
C5_Witness ==
    /\ stage = "optimize"
    /\ Succeeded
    /\ EmptyDestination
    /\ PrimaryName = "opt.onnx"
    /\ S0 = {"config.json", "vocab.txt"}
    /\ files[Dst("vocab.txt")] = "bytes of vocab.txt"
    /\ ~Exists(files, Dst("tokenizer.json"))

-----------------------------------------------------------------------------
(* C6 *)

Consumers == {"convert", "optimize", "quantize"}

\* C6 as stated: every stage that consumes a predecessor's directory (Export,
\* Optimize, Quantize) has itself copied, by the end of a successful run, every
\* manifest file the predecessor directory held.
C6_Original ==
    (stage \in Consumers /\ Succeeded) => S0 \subseteq copied

\* C6 as amended: Optimize and Quantize apply the same rule with the same
\* manifest: neither ever copies a file outside it, and a successful run of
\* either has itself copied every manifest file the predecessor held into its
\* output directory.  Export's own statements never copy a file.
C6_DownstreamStagesCopy ==
    /\ copied \subseteq Manifest
    /\ (Downstream /\ Succeeded) =>
          /\ S0 \subseteq copied
          /\ \A n \in S0 : Exists(files, Dst(n))
    /\ stage = "convert" =>
          /\ copied = {}
          /\ \A i \in 1..Len(trace) : trace[i].op # "copy"

\* A successful quantize run has copied all five manifest files.
C6_Witness ==
    /\ stage = "quantize"
    /\ Succeeded
    /\ S0 = Manifest
    /\ copied = Manifest
    /\ argv[2] # argv[1]

-----------------------------------------------------------------------------
(* C7 *)

\* C7: at no time are two or more emitted records still held in the stdout
\* buffer, undelivered.
C7_NoTwoRecordsBuffered == Len(out) - delivered <= 1

-----------------------------------------------------------------------------
(* C8 *)

HasInputDir == stage \in {"convert", "optimize", "quantize", "verify"}

\* C8: a stage writes only outside its input directory: no file of the input
\* directory is created, overwritten or removed by the run.
C8_InputDirectoryUntouched ==
    (HasInputDir /\ WellInvoked) =>
        \A n \in FileNames : files[Src(n)] = files0[Src(n)]

-----------------------------------------------------------------------------
(* C9 *)

\* The fixed tag sequence of each stage.
StageTags ==
    [download |-> <<"downloading_model", "downloading_tokenizer",
                    "saving_model", "saving_tokenizer">>,
     convert  |-> <<"exporting_to_onnx">>,
     optimize |-> <<"loading_model", "optimizing", "saving">>,
     quantize |-> <<"loading_model", "quantizing">>,
     verify   |-> <<"loading_session", "loading_tokenizer",
                    "tokenizing", "running_inference">>]

ProgressIndexes == {i \in 1..Len(out) : IsProgress(out[i])}

\* The progress records are a prefix of the stage's tag sequence, and nothing
\* comes between them but what follows them.
ProgressIsPrefix ==
    /\ ProgressIndexes = 1..Cardinality(ProgressIndexes)
    /\ Cardinality(ProgressIndexes) <= Len(StageTags[stage])
    /\ \A i \in ProgressIndexes : out[i].status = StageTags[stage][i]

\* Every statement that emitted a progress record was followed by a statement
\* that does something, not by the next record.
EveryTagAnnouncesAStep ==
    \A i \in 1..(Len(trace) - 1) :
        trace[i].op = "print" => trace[i + 1].op \notin {"print", "complete"}

\* C9: the progress records of a run are a prefix of the stage's fixed tag
\* sequence, none repeated or skipped, and each tag announces a substep that
\* runs between it and the next record.
C9_TagsInOrderEachAnnouncingAStep == ProgressIsPrefix /\ EveryTagAnnouncesAStep

-----------------------------------------------------------------------------
(* C10 *)

\* C10: whenever a statement of the try block has raised, the next step emits
\* one error record carrying the exception's message and exits with a failure
\* status, and it changes no file and no directory; a run that ended this way
\* has that record last.
C10_ErrorReportedNothingCleaned ==
    /\ [](pc = "except" => exc # NoExc)
    /\ []((Exited /\ exc # NoExc) =>
            /\ Last(out) = [error |-> exc]
            /\ exitCode # 0)
    /\ [][pc = "except" =>
            /\ out' = Append(out, [error |-> exc])
            /\ pc' = "exited"
            /\ exitCode' # 0
            /\ files' = files
            /\ dirs' = dirs]_vars

\* A library call raised after the run had created its output directory and
\* written part of its artifact: the run has ended, the error record carries the
\* message, the directory and the truncated file are still there.
C10_Witness ==
    /\ stage = "quantize"
    /\ Exited
    /\ exc = "failure 2"
    /\ Last(out) = [error |-> "failure 2"]
    /\ Last(trace).arg = "quantize_dynamic"
    /\ argv[2] \in dirs \ dirs0
    /\ files[Join(argv[2], "model_quantized.onnx")] = "truncated"

-----------------------------------------------------------------------------
(* Runs after the first *)

\* What is kept of a run that has ended: its stage and arguments, the files it
\* began with, its exit status and records, the files its copy loop left in the
\* output directory, and the bytes of its primary artifact.
RunSummary ==
    [stage    |-> stage,
     argv     |-> argv,
     files0   |-> files0,
     exitCode |-> exitCode,
     out      |-> out,
     side     |-> [n \in copied |-> files[Join(OutputDirOf(stage, argv), n)]],
     primary  |-> IF PrimaryPath(stage, argv) \in DOMAIN files
                  THEN files[PrimaryPath(stage, argv)] ELSE Absent]

\* A new process for script s with arguments av on filesystem fs, ds.
StartRun(s, av, lacking, fs, ds) ==
    /\ stage' = s
    /\ argv' = av
    /\ missing' = lacking
    /\ files' = fs
    /\ dirs' = ds
    /\ files0' = fs
    /\ dirs0' = ds
    /\ pc' = "start"
    /\ ip' = 0
    /\ out' = <<>>
    /\ delivered' = 0
    /\ exitCode' = NotExited
    /\ exc' = NoExc
    /\ locals' = [optimized_model |-> Absent, outputs |-> <<>>]
    /\ trace' = <<>>
    /\ copied' = {}
    /\ runs' = Append(runs, RunSummary)
    /\ UNCHANGED stdoutMode

\* The same downstream stage is run once more with the same arguments: the
\* predecessor directory as it was, the output directory fresh and empty.
Rerun ==
    /\ runs = <<>>
    /\ Succeeded
    /\ Downstream
    /\ EmptyDestination
    /\ \A n \in FileNames : files[Src(n)] = files0[Src(n)]
    /\ StartRun(stage, argv, missing, files0, dirs0)

NextRerun == Next \/ Rerun

SpecRerun == Init /\ [][NextRerun]_vars

\* The files the copy loop of this run has left in the output directory.
SidecarResult == [n \in copied |-> files[Dst(n)]]

\* C11: a downstream stage run twice on the same predecessor directory, each
\* time into a fresh empty output directory, and successful both times, leaves
\* the same sidecar files with the same bytes in both output directories.
C11_SameSidecarsOnRerun ==
    (runs # <<>> /\ Succeeded) =>
        /\ SidecarResult = runs[1].side
        /\ DOMAIN SidecarResult = S0

\* The second run has succeeded and has copied something, although the library
\* serialised the primary artifact differently in the two runs.
C11_Witness ==
    /\ runs # <<>>
    /\ Succeeded
    /\ copied # {}
    /\ files[PrimaryPath(stage, argv)] # runs[1].primary

-----------------------------------------------------------------------------
(* C12 *)

\* session.run has returned, as did the three calls before it.
InferenceReturned == stage = "verify" /\ Len(trace) >= 8 /\ exc = NoExc

\* The record verify.py builds from the output tensor and the probe text.
VerifyReport ==
    [status       |-> "complete",
     test_text    |-> TestText(argv),
     output_shape |-> <<Len(locals.outputs)>>,
     output_mean  |-> Mean(locals.outputs),
     output_std   |-> Std(locals.outputs)]

\* C12: once session loading, tokenizer loading, tokenization and inference
\* have all returned, nothing in Verify can fail any more: whatever the output
\* tensor, the run goes on to print complete with the probe text, the shape,
\* the mean and the standard deviation, and exits 0.
C12_VerifyReportIsAdvisory ==
    /\ [](InferenceReturned =>
            /\ locals.outputs \in Tensors
            /\ pc \in {"try", "exited"}
            /\ Len(trace) = 9 => out # <<>> /\ Last(out) = VerifyReport
            /\ Exited => exitCode = 0 /\ Len(trace) = 9)
    /\ [][InferenceReturned => exc' = NoExc /\ locals' = locals]_vars

\* Verify has succeeded on an all-zero output: mean 0, standard deviation 0.
C12_Witness ==
    /\ stage = "verify"
    /\ Succeeded
    /\ locals.outputs = <<0, 0>>
    /\ Last(out).output_std = 0

-----------------------------------------------------------------------------
(* The pipeline *)

\* The driver is not part of the scripts: it is modelled from its contract.
\* It runs one script at a time; "in" names the directory the running stage
\* reads, "out" the directory it writes, so that at a hand-off the finished
\* stage's "out" becomes the next stage's "in" and a new "out" is provided.
PipelineOrder == <<"download", "convert", "optimize", "quantize", "verify">>

StageAfter(s) ==
    LET i == CHOOSE k \in 1..Len(PipelineOrder) : PipelineOrder[k] = s
    IN  PipelineOrder[i + 1]

\* The arguments the driver gives a stage: the predecessor's output directory
\* as the input, the new directory as the output; Optimize's output filename
\* and head count and hidden size are the driver's choice.
DriverArgv(s) ==
    CASE s = "download" -> { << <<"hub-model">>, OutDir >> }
      [] s = "convert"  -> { <<InDir, OutDir>> }
      [] s = "optimize" ->
            { <<Join(InDir, "model.onnx"), Join(OutDir, n), <<"12">>, <<"384">> >> :
                n \in {"model.onnx", "opt.onnx"} }
      [] s = "quantize" -> { <<InDir, OutDir>> }
      [] s = "verify"   -> { <<Join(InDir, "model_quantized.onnx"), InDir>> }

\* The filesystem the next stage sees: the finished stage's output directory
\* under "in", and an output directory in state o under "out".
ThreadedFiles(fs, o) ==
    [p \in AllPaths |->
        IF Parent(p) = InDir THEN fs[Join(OutDir, p[Len(p)])] ELSE LeftOver(o, p[Len(p)])]

ThreadedDirs(ds, o) ==
    (IF OutDir \in ds THEN {InDir} ELSE {}) \cup (IF o = "missing" THEN {} ELSE {OutDir})

\* The driver goes on after a stage whose process ended with status 0 and whose
\* record stream was terminated; anything else is a failure outcome.
DriverProceeds ==
    /\ Exited
    /\ exitCode = 0
    /\ \E i \in 1..delivered : IsTerminal(out[i])

\* The status the driver sees of a process it has killed (128 + SIGKILL).
KilledStatus == 128 + 9

\* The driver invokes the next stage on the finished stage's output directory.
HandOff ==
    /\ DriverProceeds
    /\ stage # PipelineOrder[Len(PipelineOrder)]
    /\ \E av \in DriverArgv(StageAfter(stage)), o \in OutputStates(StageAfter(stage)),
          lacking \in {{}} \cup {{l} : l \in NeededLibs(StageAfter(stage))} :
            StartRun(StageAfter(stage), av, lacking,
                     ThreadedFiles(files, o), ThreadedDirs(dirs, o))

\* The driver terminates the running stage: the process ends at once, what is
\* still in its stdout buffer is lost.
Kill ==
    /\ ~Exited
    /\ pc' = "exited"
    /\ exitCode' = KilledStatus
    /\ UNCHANGED <<runs, stage, missing, argv, stdoutMode, files, dirs, ip, out,
                   delivered, exc, locals, files0, dirs0, trace, copied>>

PipelineInit == Init /\ stage = PipelineOrder[1] /\ argv \in DriverArgv(stage)

PipelineNext == Next \/ HandOff \/ Kill

PipelineSpec == PipelineInit /\ [][PipelineNext]_vars

-----------------------------------------------------------------------------
(* C13 *)

\* The stages invoked so far in this pipeline run, the running one last.
Invoked == [i \in 1..Len(runs) |-> runs[i].stage] \o <<stage>>

\* A run that ended with a complete record last and status 0.
EndedWell(status, records) ==
    status = 0 /\ records # <<>> /\ IsComplete(Last(records))

\* C13: the stages of a pipeline run are invoked in the order Download, Export,
\* Optimize, Quantize, Verify, one at a time; a stage is invoked only when
\* every stage before it has ended with a complete record and status 0, and
\* after a stage that ended otherwise (an error record, a nonzero status or an
\* unterminated record stream) nothing is invoked any more.
C13_StagesInOrderHaltOnFailure ==
    /\ [](/\ Len(Invoked) <= Len(PipelineOrder)
          /\ \A i \in 1..Len(Invoked) : Invoked[i] = PipelineOrder[i]
          /\ \A i \in 1..Len(runs) : EndedWell(runs[i].exitCode, runs[i].out))
    /\ [][(stage' # stage \/ runs' # runs) => Exited /\ EndedWell(exitCode, out)]_vars
    /\ [][~(Exited /\ ~EndedWell(exitCode, out))]_vars

\* All five stages have run and Verify has succeeded.
C13_Witness ==
    /\ Len(runs) = 4
    /\ stage = "verify"
    /\ Succeeded
    /\ IsComplete(Last(out))

-----------------------------------------------------------------------------
(* C14 *)

\* The library calls that write into the output directory.
Writers ==
    {"model.save_pretrained", "tokenizer.save_pretrained", "main_export",
     "save_model_to_file", "quantize_dynamic"}

\* The statements executed before the i-th one.
Before(i, op) == \E j \in 1..(i - 1) : trace[j].op = op

WritesOutput(st) == st.op = "copy" \/ (st.op = "call" /\ st.arg \in Writers)

\* C14 as stated: validation, then mkdir, and only then the first progress
\* record and the first library call; Quantize prints nothing before its check.
C14_Original ==
    \A i \in 1..Len(trace) :
        /\ (stage # "verify" /\ trace[i].op \in {"print", "call"}) => Before(i, "mkdir")
        /\ (stage = "quantize" /\ trace[i].op = "print") => Before(i, "check")

\* C14, amended: a stage creates its output directory before it or its library
\* writes a file into it, and Quantize checks for model.onnx before it creates
\* the directory, calls its library or copies a file; progress records, and
\* library calls that write nothing, may come before either.
C14_DirectoryBeforeWrites ==
    /\ \A i \in 1..Len(trace) :
          /\ WritesOutput(trace[i]) => Before(i, "mkdir")
          /\ (stage = "quantize" /\ trace[i].op \in {"mkdir", "call", "copy"})
                => Before(i, "check")
    /\ (stage # "verify" /\ files # files0) => Before(Len(trace) + 1, "mkdir")
    /\ (stage = "quantize" /\ (files # files0 \/ dirs # dirs0))
            => Before(Len(trace) + 1, "check")

\* A quantize run that printed loading_model, then checked, then created the
\* directory, then wrote, and succeeded.
C14_Witness ==
    /\ stage = "quantize"
    /\ Succeeded
    /\ trace[1].op = "print"
    /\ trace[2].op = "check"
    /\ trace[3].op = "mkdir"
    /\ files # files0

-----------------------------------------------------------------------------
(* C15 *)

Producers == {"download", "convert", "optimize", "quantize"}

HasComplete == \E i \in 1..Len(out) : IsComplete(out[i])

\* The location a complete record carries.
LocationOf(r) ==
    CASE "cache_dir"   \in DOMAIN r -> r.cache_dir
      [] "output_dir"  \in DOMAIN r -> r.output_dir
      [] "output_path" \in DOMAIN r -> r.output_path
      [] OTHER -> Absent

\* The library call that writes the primary artifact has been executed.
PrimaryWritten ==
    /\ \E i \in 1..Len(trace) : trace[i].op = "call" /\ trace[i].arg \in Writers
    /\ files[PrimaryPath(stage, argv)] \notin {Absent, "truncated", files0[PrimaryPath(stage, argv)]}

\* Unless the copy loop has since written over it, the file at the primary
\* path is what the library produced.
PrimaryIsTheArtifact ==
    /\ (stage = "optimize" /\ Last(argv[2]) \notin copied)
            => files[argv[2]] = locals.optimized_model
    /\ stage = "quantize"
            => \E v \in Variants :
                  files[PrimaryPath(stage, argv)]
                      = "q8" \o v \o "(" \o files[Join(argv[1], "model.onnx")] \o ")"

FailedWhileCopying ==
    Exited /\ exc # NoExc /\ trace # <<>> /\ Last(trace).op = "copy"

\* C15: in Download, Export, Optimize and Quantize, once complete has been
\* printed it carries the primary output location, the library has written the
\* primary artifact there, and in Optimize and Quantize every manifest file of
\* the predecessor directory has been copied; a run that fails in the copy loop
\* ends with an error record and a nonzero status, the primary artifact on disk.
C15_CompleteMeansDone ==
    /\ (stage \in Producers /\ HasComplete) =>
          /\ IsComplete(Last(out))
          /\ LocationOf(Last(out)) = PathStr(argv[2])
          /\ PrimaryWritten
          /\ PrimaryIsTheArtifact
          /\ Downstream =>
                /\ S0 \subseteq copied
                /\ \A n \in S0 : files[Dst(n)] = files0[Src(n)]
    /\ (stage \in Producers /\ FailedWhileCopying) =>
          /\ IsError(Last(out))
          /\ ~HasComplete
          /\ exitCode # 0
          /\ Exists(files, PrimaryPath(stage, argv))

\* Optimize has printed complete with sidecars to copy, all of them copied.
C15_Witness ==
    /\ stage = "optimize"
    /\ HasComplete
    /\ S0 # {}
    /\ copied = S0

-----------------------------------------------------------------------------
(* C16 *)

\* A stage run in which the interpreter keeps executing and every library
\* call returns or raises.
FairSpec == Spec /\ WF_vars(Next)

\* The statements executed so far are the first statements of the try block,
\* in order, each once.
SinglePass == trace = SubSeq(Program(stage), 1, Len(trace))

EachCallAtMostOnce ==
    \A i, j \in 1..Len(trace) :
        (trace[i].op = "call" /\ trace[j].op = "call" /\ trace[i].arg = trace[j].arg)
            => i = j

\* C16: a stage run goes through the statements of its try block in order,
\* each at most once, so it makes each library call at most once; it ends
\* once, with status 0 or a nonzero status, takes no step after that, and,
\* every library call returning or raising, it does end.
C16_SinglePassAndTerminates ==
    /\ [](SinglePass /\ EachCallAtMostOnce)
    /\ [](Exited <=> exitCode # NotExited)
    /\ [][~Exited /\ (exc # NoExc => exc' = exc)]_vars
    /\ <>Exited

\* A convert run has executed its whole try block and has ended.
C16_Witness ==
    /\ stage = "convert"
    /\ Exited
    /\ trace = ConvertProgram
    /\ exitCode = 0

-----------------------------------------------------------------------------
(* C17 *)

\* Quantize runs on the output directory of the Optimize run before it.
QuantizeAfterOptimize ==
    stage = "quantize" /\ runs # <<>> /\ Last(runs).stage = "optimize"

QuantizeInput == Join(argv[1], "model.onnx")
QuantizeOutput == Join(argv[2], "model_quantized.onnx")

\* The check of quantize.py has been executed, and has raised or has not.
Checked == stage = "quantize" /\ Len(trace) >= 2
CheckFailed == Len(trace) = 2 /\ exc # NoExc

\* The Optimize run before wrote its model under another name than model.onnx,
\* into a directory that held no model.onnx.
OptimizedUnderOtherName ==
    /\ QuantizeAfterOptimize
    /\ Last(Last(runs).argv[2]) # "model.onnx"
    /\ ~Exists(Last(runs).files0, Join(Parent(Last(runs).argv[2]), "model.onnx"))

\* C17: Quantize, run on Optimize's output directory, passes its input check
\* exactly when that directory holds a file named model.onnx; after an Optimize
\* that wrote its model under another name into a directory without a
\* model.onnx, Quantize never writes model_quantized.onnx and, unless it is
\* killed, ends with an error record and a nonzero status; and what Quantize
\* writes is made from model.onnx and from no other weights file.
C17_QuantizeNeedsModelOnnx ==
    /\ (QuantizeAfterOptimize /\ Checked) =>
            (~CheckFailed <=> Exists(files0, QuantizeInput))
    /\ OptimizedUnderOtherName =>
            /\ ~Exists(files0, QuantizeInput)
            /\ files[QuantizeOutput] = files0[QuantizeOutput]
            /\ (Exited /\ exitCode # KilledStatus) =>
                    /\ exitCode # 0
                    /\ out # <<>>
                    /\ IsError(Last(out))
    /\ (QuantizeAfterOptimize /\ files[QuantizeOutput] # files0[QuantizeOutput]) =>
            /\ Exists(files0, QuantizeInput)
            /\ files[QuantizeOutput] \in
                  {"truncated"} \cup {"q8" \o v \o "(" \o files0[QuantizeInput] \o ")" : v \in Variants}

\* Optimize has written opt.onnx, and the Quantize run on its output directory
\* has ended with "Model not found".
C17_Witness ==
    /\ OptimizedUnderOtherName
    /\ Last(runs).primary # Absent
    /\ Exists(files0, Join(argv[1], "opt.onnx"))
    /\ Exited
    /\ out # <<>>
    /\ Last(out) = ErrorRecord("Model not found: in/model.onnx")

=============================================================================
